---- MODULE Spec2Model ----
(* A model of pyparrot's Bebop.py: the sensor store (BebopSensors), the        *)
(* telemetry dispatcher (Bebop.update_sensors) and the action controller      *)
(* (connect, disconnect, ask_for_state_update, takeoff, land, fly_direct,     *)
(* flip, smart_sleep, safe_takeoff, safe_land).                               *)
EXTENDS Integers, Sequences, FiniteSets, TLC

VARIABLES
    sensors_dict,       \* BebopSensors.sensors_dict
    RelativeMoveEnded,  \* BebopSensors.RelativeMoveEnded
    CameraMoveEnded,    \* BebopSensors.CameraMoveEnded
    flying_state,       \* BebopSensors.flying_state
    intake,             \* the last call on the telemetry side, its outcome and,
                        \* while BebopSensors.update runs in steps, its line
    pc,                 \* where the caller's thread is: "idle" or a line of a safe action
    call,               \* the current (or last) call of an action and its outcome
    clock,              \* time.time()
    start_time,         \* start_time of the safe action
    sent,               \* the commands the call has handed to the transport
    idles,              \* the smart_sleep calls of the call
    obs,                \* the flying_state read by each loop test of the call
    fed                 \* flying_state as the buffers that reached the transport
                        \* during the current wait leave it, once dispatched

store_vars == <<sensors_dict, RelativeMoveEnded, CameraMoveEnded, flying_state>>
ctl_vars == <<pc, call, clock, start_time, sent, idles, obs, fed>>
vars == <<sensors_dict, RelativeMoveEnded, CameraMoveEnded, flying_state,
          intake, pc, call, clock, start_time, sent, idles, obs, fed>>

-----------------------------------------------------------------------------
(* Bounds of the model.                                                       *)

\* longest sensor list one telemetry buffer decodes to
MaxEvents == 2
\* largest timeout handed to safe_takeoff / safe_land
MaxTimeout == 3
\* latest clock reading at which a safe action is still started
MaxStart == 0
\* latest clock reading a smart_sleep called by the user ends at
MaxWake == 1

-----------------------------------------------------------------------------
(* Python values: None, int, str and bool are kept apart by a tag.            *)

None == [t |-> "none", n |-> 0, s |-> ""]
PyInt(i) == [t |-> "int", n |-> i, s |-> ""]
PyStr(x) == [t |-> "str", n |-> 0, s |-> x]
PyBool(b) == [t |-> "bool", n |-> IF b THEN 1 ELSE 0, s |-> ""]

\* the dictionary assignment d[k] = v
DictSet(d, k, v) == [x \in (DOMAIN d) \cup {k} |-> IF x = k THEN v ELSE d[x]]

\* the list subscription lst[i] of Python: negative indexes count from the end
InRange(lst, i) == -Len(lst) <= i /\ i < Len(lst)
GetItem(lst, i) == IF i >= 0 THEN lst[i + 1] ELSE lst[Len(lst) + i + 1]

\* "fmt % args" raises TypeError unless fmt has one conversion per argument
PercentFormatRaises(conversions, arguments) == conversions # arguments

-----------------------------------------------------------------------------
(* The sensor names BebopSensors.update tests for, and the inputs of the      *)
(* model: the enum table of the sensor parser and the decoded sensors.        *)

FlyingName == "FlyingStateChanged_state"
MoveName == "PilotingEvent_moveByEnd"
CameraName == "CameraState_OrientationV2"
BatteryName == "BatteryStateChanged_percent"

UNKNOWN_ENUM_VALUE == PyStr("UNKNOWN_ENUM_VALUE")

FlyingStateEnum == <<"landed", "takingoff", "hovering", "flying", "landing", "emergency">>

\* sensor_enum: the key (name, "enum") is modelled by the name
NoEnum == << >>
EnumTable == [k \in {FlyingName} |-> FlyingStateEnum]

Sensor(name, value, enum) ==
    [sensor_name |-> name, sensor_value |-> value, sensor_enum |-> enum]

\* raw values of an enumerated sensor: absent, in range (first, second, last),
\* == length, > length, and -1
RawIndexes(lst) == {None} \cup {PyInt(i) : i \in {-1, 0, 1, Len(lst) - 1, Len(lst), Len(lst) + 1}}

MissingSensor == Sensor(None, None, EnumTable)

\* the sensors BebopSensors.update is called with
Sensors ==
    {MissingSensor}
    \cup {Sensor(PyStr(FlyingName), v, EnumTable) : v \in RawIndexes(FlyingStateEnum)}
    \cup {Sensor(PyStr(FlyingName), PyStr("hovering"), NoEnum)}
    \cup {Sensor(PyStr(BatteryName), PyInt(v), NoEnum) : v \in {50, 100}}
    \cup {Sensor(PyStr(MoveName), PyInt(0), EnumTable),
          Sensor(PyStr(CameraName), PyInt(0), EnumTable)}

-----------------------------------------------------------------------------
(* BebopSensors                                                               *)

Store == [sensors_dict |-> sensors_dict,
          RelativeMoveEnded |-> RelativeMoveEnded,
          CameraMoveEnded |-> CameraMoveEnded,
          flying_state |-> flying_state]

\* BebopSensors.__init__
NewStore == [sensors_dict |-> << >>,
             RelativeMoveEnded |-> FALSE,
             CameraMoveEnded |-> FALSE,
             flying_state |-> PyStr("unknown")]

\* line 26: (sensor_name, "enum") in sensor_enum
IsEnumerated(sensor_name, sensor_enum) == sensor_name.s \in DOMAIN sensor_enum

\* line 28: the test that selects the "unknown" sentinel
IsUnknownEnum(sensor_value, enum_list) ==
    sensor_value = None \/ sensor_value.n > Len(enum_list)

\* lines 26-38: the value written to sensors_dict, or the IndexError of line 31
Resolve(sensor_name, sensor_value, sensor_enum) ==
    IF IsEnumerated(sensor_name, sensor_enum)
    THEN LET enum_list == sensor_enum[sensor_name.s]
         IN  IF IsUnknownEnum(sensor_value, enum_list)
             THEN [exc |-> "", value |-> UNKNOWN_ENUM_VALUE]
             ELSE IF InRange(enum_list, sensor_value.n)
                  THEN [exc |-> "", value |-> PyStr(GetItem(enum_list, sensor_value.n))]
                  ELSE [exc |-> "IndexError", value |-> None]
    ELSE [exc |-> "", value |-> sensor_value]

\* line 42: what flying_state is set to
FlyingStateOf(sensor_value, value) == sensor_value

\* names of the drone's sensors that contain a name update tests for
MoveArgName == "PilotingEvent_moveByEnd_dX"
CameraArgName == "CameraState_OrientationV2_tilt"
FlyingClassName == "PilotingState_FlyingStateChanged_state"
Contains == {<<MoveArgName, MoveName>>, <<CameraArgName, CameraName>>,
             <<FlyingClassName, FlyingName>>}

\* a test of the name that accepts the names containing the one tested for
NameContains(sensor_name, name) ==
    sensor_name = PyStr(name) \/ <<sensor_name.s, name>> \in Contains

\* lines 41, 44, 47: sensor_name == "..."
NameIs(sensor_name, name) == sensor_name = PyStr(name)

\* flags that follow the last sensor: cleared by every other name
DerivedOfLast(st, sensor_name, sensor_value, value) ==
    [st EXCEPT
       !.flying_state = IF NameIs(sensor_name, FlyingName)
                        THEN FlyingStateOf(sensor_value, value) ELSE @,
       !.RelativeMoveEnded = NameIs(sensor_name, MoveName),
       !.CameraMoveEnded = NameIs(sensor_name, CameraName)]

\* lines 40-48: the sensors saved outside the dictionary
Derived(st, sensor_name, sensor_value, value) ==
    [st EXCEPT
       !.flying_state = IF NameIs(sensor_name, FlyingName)
                        THEN FlyingStateOf(sensor_value, value) ELSE @,
       !.RelativeMoveEnded = IF NameIs(sensor_name, MoveName) THEN TRUE ELSE @,
       !.CameraMoveEnded = IF NameIs(sensor_name, CameraName) THEN TRUE ELSE @]

\* lines 26-48: the store after them and the exception they raised
Stored(st, sensor_name, sensor_value, sensor_enum) ==
    LET r == Resolve(sensor_name, sensor_value, sensor_enum)
    IN  IF r.exc # ""
        THEN [st |-> st, exc |-> r.exc]
        ELSE [st |-> Derived([st EXCEPT !.sensors_dict =
                                 DictSet(@, sensor_name.s, r.value)],
                             sensor_name, sensor_value, r.value),
              exc |-> ""]

\* BebopSensors.update: lines 21-23 return on an empty sensor
update(st, sensor_name, sensor_value, sensor_enum) ==
    IF sensor_name = None
    THEN [st |-> st, exc |-> ""]
    ELSE Stored(st, sensor_name, sensor_value, sensor_enum)

-----------------------------------------------------------------------------
(* Bebop.update_sensors                                                       *)

\* the buffers of the transport: raw_data is modelled by what the sensor
\* parser decodes it to, a list of sensors or None (parsed = FALSE)
SensorLists(S) == UNION {[1 .. n -> S] : n \in 0 .. MaxEvents}

RawData(S) == {[parsed |-> FALSE, sensors |-> << >>]}
              \cup {[parsed |-> TRUE, sensors |-> l] : l \in SensorLists(S)}

Packet(data_type, buffer_id, sequence_number, raw_data, ack) ==
    [data_type |-> data_type, buffer_id |-> buffer_id,
     sequence_number |-> sequence_number, raw_data |-> raw_data, ack |-> ack]

\* data type 4 is the transport's DATA_WITH_ACK, 2 its DATA_NO_ACK
Packets(S) ==
    {Packet(4, 127, 1, d, TRUE) : d \in RawData(S)}
    \cup {Packet(2, 126, 2, d, FALSE) : d \in RawData(S)}

\* line 81: is this sensor handed to the store
IsNamed(sensor) == sensor.sensor_name # None

\* the loop left at the first sensor without a name
RECURSIVE ApplySensorsUntilMissing(_, _, _)
ApplySensorsUntilMissing(st, sensor_list, i) ==
    IF i > Len(sensor_list) \/ ~IsNamed(sensor_list[i])
    THEN [st |-> st, exc |-> "", applied |-> i - 1]
    ELSE LET sensor == sensor_list[i]
             r == update(st, sensor.sensor_name, sensor.sensor_value, sensor.sensor_enum)
         IN  IF r.exc # ""
             THEN [st |-> st, exc |-> r.exc, applied |-> i - 1]
             ELSE ApplySensorsUntilMissing(r.st, sensor_list, i + 1)

\* lines 79-86: the loop over the sensor list from position i, stopped by the
\* first exception; applied counts the sensors the loop has gone through
RECURSIVE ApplySensors(_, _, _)
ApplySensors(st, sensor_list, i) ==
    IF i > Len(sensor_list)
    THEN [st |-> st, exc |-> "", applied |-> i - 1]
    ELSE LET sensor == sensor_list[i]
         IN  IF IsNamed(sensor)
             THEN LET r == update(st, sensor.sensor_name, sensor.sensor_value,
                                  sensor.sensor_enum)
                  IN  IF r.exc # ""
                      THEN [st |-> st, exc |-> r.exc, applied |-> i - 1]
                      ELSE ApplySensors(r.st, sensor_list, i + 1)
             ELSE IF PercentFormatRaises(3, 3)
                  THEN [st |-> st, exc |-> "TypeError", applied |-> i - 1]
                  ELSE ApplySensors(st, sensor_list, i + 1)

\* lines 88-89: the ack_packet calls of one update_sensors call
AckCalls(p, exc) ==
    IF exc = "" /\ p.ack THEN << <<p.buffer_id, p.sequence_number>> >> ELSE << >>

\* lines 77-89: the whole handler
Dispatch(st, p) ==
    LET r == IF p.raw_data.parsed
             THEN ApplySensors(st, p.raw_data.sensors, 1)
             ELSE [st |-> st, exc |-> "", applied |-> 0]
    IN  [st |-> r.st, exc |-> r.exc, applied |-> r.applied,
         acks |-> AckCalls(p, r.exc)]

NoPacket == Packet(2, 0, 0, [parsed |-> FALSE, sensors |-> << >>], FALSE)

SetStore(st) ==
    /\ sensors_dict' = st.sensors_dict
    /\ RelativeMoveEnded' = st.RelativeMoveEnded
    /\ CameraMoveEnded' = st.CameraMoveEnded
    /\ flying_state' = st.flying_state

\* a direct call of BebopSensors.update
UpdateCall(sensor) ==
    LET r == update(Store, sensor.sensor_name, sensor.sensor_value, sensor.sensor_enum)
    IN  /\ SetStore(r.st)
        /\ intake' = [op |-> "update", sensor |-> sensor, packet |-> NoPacket,
                      exc |-> r.exc, applied |-> 0, acks |-> << >>,
                      line |-> "return"]

\* the transport hands one buffer to Bebop.update_sensors
update_sensors(p) ==
    LET r == Dispatch(Store, p)
    IN  /\ SetStore(r.st)
        /\ intake' = [op |-> "update_sensors", sensor |-> MissingSensor, packet |-> p,
                      exc |-> r.exc, applied |-> r.applied, acks |-> r.acks,
                      line |-> "return"]

-----------------------------------------------------------------------------
(* BebopSensors.update statement by statement, as a reader on another thread  *)
(* sees it                                                                    *)

\* the flags and flying_state written before the dictionary
UpdateOrderFlagsFirst == <<"42", "45", "48", "34">>

\* the statements of update that write the store, in the order of the source:
\* line 34 (line 38 for a sensor that is not enumerated), lines 42, 45 and 48
UpdateOrder == <<"34", "42", "45", "48">>

\* the store after the statement of update at line
Statement(line, st, sensor_name, sensor_value, value) ==
    CASE line = "34" ->
            [st EXCEPT !.sensors_dict = DictSet(@, sensor_name.s, value)]
      [] line = "42" ->
            [st EXCEPT !.flying_state = IF NameIs(sensor_name, FlyingName)
                                        THEN FlyingStateOf(sensor_value, value) ELSE @]
      [] line = "45" ->
            [st EXCEPT !.RelativeMoveEnded = IF NameIs(sensor_name, MoveName)
                                             THEN TRUE ELSE @]
      [] line = "48" ->
            [st EXCEPT !.CameraMoveEnded = IF NameIs(sensor_name, CameraName)
                                           THEN TRUE ELSE @]

\* the statement after the one at line, "return" after the last
NextLine(line) ==
    LET i == CHOOSE j \in DOMAIN UpdateOrder : UpdateOrder[j] = line
    IN  IF i = Len(UpdateOrder) THEN "return" ELSE UpdateOrder[i + 1]

\* the sensors update is called with when it runs in steps: the names it
\* tests for and names that contain them
StepSensors ==
    {MissingSensor,
     Sensor(PyStr(FlyingName), None, EnumTable),
     Sensor(PyStr(FlyingName), PyInt(1), EnumTable),
     Sensor(PyStr(FlyingName), PyInt(Len(FlyingStateEnum)), EnumTable),
     Sensor(PyStr(FlyingName), PyStr("hovering"), NoEnum),
     Sensor(PyStr(MoveName), PyInt(0), EnumTable),
     Sensor(PyStr(CameraName), PyInt(0), EnumTable),
     Sensor(PyStr(FlyingClassName), PyStr("flying"), NoEnum),
     Sensor(PyStr(MoveArgName), PyInt(0), EnumTable),
     Sensor(PyStr(CameraArgName), PyInt(0), EnumTable)}

\* lines 20-31: update is called, returns on an empty sensor, resolves the
\* value (or raises) and stands before its first write
update_enters ==
    /\ intake.line = "return"
    /\ \E sensor \in StepSensors :
          LET r == Resolve(sensor.sensor_name, sensor.sensor_value, sensor.sensor_enum)
              entered == sensor.sensor_name # None /\ r.exc = ""
          IN  intake' = [op |-> "update", sensor |-> sensor, packet |-> NoPacket,
                         exc |-> IF sensor.sensor_name = None THEN "" ELSE r.exc,
                         applied |-> 0, acks |-> << >>,
                         line |-> IF entered THEN UpdateOrder[1] ELSE "return"]
    /\ UNCHANGED <<store_vars, pc, call, clock, start_time, sent, idles, obs, fed>>

\* lines 34-48: the next statement of the update in progress
update_steps ==
    /\ intake.line # "return"
    /\ LET sensor == intake.sensor
           r == Resolve(sensor.sensor_name, sensor.sensor_value, sensor.sensor_enum)
       IN  SetStore(Statement(intake.line, Store, sensor.sensor_name,
                              sensor.sensor_value, r.value))
    /\ intake' = [intake EXCEPT !.line = NextLine(intake.line)]
    /\ UNCHANGED <<pc, call, clock, start_time, sent, idles, obs, fed>>

-----------------------------------------------------------------------------
(* The collaborators of Bebop: the command parser and the connection.         *)

\* DroneCommandParser.get_command_tuple: the ids of the command in the xml
get_command_tuple(project, class, cmd) ==
    CASE <<project, class, cmd>> = <<"ardrone3", "Piloting", "TakeOff">> -> <<1, 0, 1>>
      [] <<project, class, cmd>> = <<"ardrone3", "Piloting", "PCMD">> -> <<1, 0, 2>>
      [] <<project, class, cmd>> = <<"ardrone3", "Piloting", "Landing">> -> <<1, 0, 3>>
      [] <<project, class, cmd>> = <<"ardrone3", "Animations", "Flip">> -> <<1, 5, 0>>
      [] <<project, class, cmd>> = <<"common", "Common", "AllStates">> -> <<0, 4, 0>>

\* Python strings the code looks into are sequences of characters
UpperCase ==
    <<"A", "B", "C", "D", "E", "F", "G", "H", "I", "J", "K", "L", "M",
      "N", "O", "P", "Q", "R", "S", "T", "U", "V", "W", "X", "Y", "Z">>
LowerCase ==
    <<"a", "b", "c", "d", "e", "f", "g", "h", "i", "j", "k", "l", "m",
      "n", "o", "p", "q", "r", "s", "t", "u", "v", "w", "x", "y", "z">>

\* the direction compared as it was given
keep_case(str) == str

\* str.lower
LowerChar(c) ==
    IF \E i \in DOMAIN UpperCase : UpperCase[i] = c
    THEN LowerCase[CHOOSE i \in DOMAIN UpperCase : UpperCase[i] = c]
    ELSE c
lower(str) == [i \in DOMAIN str |-> LowerChar(str[i])]

front == <<"f", "r", "o", "n", "t">>
back == <<"b", "a", "c", "k">>
right == <<"r", "i", "g", "h", "t">>
left == <<"l", "e", "f", "t">>

\* DroneCommandParser.get_command_tuple_with_enum for Flip: the command and
\* the position of the direction in the enum of the xml
FlipEnum == <<front, back, right, left>>
get_command_tuple_with_enum(project, class, cmd, variant) ==
    [command_tuple |-> get_command_tuple(project, class, cmd),
     enum_tuple |-> <<(CHOOSE i \in DOMAIN FlipEnum : FlipEnum[i] = variant) - 1>>]

\* one command handed to the connection, with the enum or the parameters of it
Sending(how, command_tuple, enum_tuple) ==
    [how |-> how, command_tuple |-> command_tuple, enum_tuple |-> enum_tuple]

\* WifiConnection.smart_sleep: waits the given time and meanwhile hands the
\* buffers that arrive to update_sensors
connection_smart_sleep(timeout) == [pumps |-> TRUE, seconds |-> timeout]

-----------------------------------------------------------------------------
(* Bebop: the direct actions                                                  *)

\* a call: its arguments (timeout of a safe action, direction of flip, axes
\* and duration of fly_direct), what the connection answered to its command
\* (None when it sent none or dropped the answer), what it returned and what
\* it raised
Called(op, timeout, direction, axes, answer, ret, exc) ==
    [op |-> op, timeout |-> timeout, direction |-> direction, axes |-> axes,
     answer |-> answer, ret |-> ret, exc |-> exc]

NoCall == Called("none", 0, << >>, << >>, None, None, "")

\* lines 136-137: the command takeoff sends
TakeoffSending ==
    Sending("noparam_ack", get_command_tuple("ardrone3", "Piloting", "TakeOff"), << >>)

\* lines 169-170: the command land sends
LandSending ==
    Sending("noparam_ack", get_command_tuple("ardrone3", "Piloting", "Landing"), << >>)

\* line 137: takeoff has no return statement
TakeoffResult(accepted) == None

\* line 170: land returns what the connection returned
LandResult(accepted) == PyBool(accepted)

\* a call starts with empty logs
Fresh ==
    /\ obs' = << >>
    /\ idles' = 0
    /\ fed' = flying_state

\* the retries connect is called with
Retries == {0, 3}

\* Bebop.connect, lines 102-106: drone_connection is the WifiConnection of
\* __init__, never None, and the answer of its connect is returned
connect ==
    /\ pc = "idle"
    /\ \E num_retries \in Retries, connected \in BOOLEAN :
          /\ call' = Called("connect", 0, << >>, <<num_retries>>,
                            PyBool(connected), PyBool(connected), "")
          /\ sent' = <<Sending("connect", << >>, <<num_retries>>)>>
    /\ Fresh
    /\ UNCHANGED <<store_vars, intake, pc, clock, start_time>>

\* Bebop.disconnect, line 116: nothing is returned
disconnect ==
    /\ pc = "idle"
    /\ call' = Called("disconnect", 0, << >>, << >>, None, None, "")
    /\ sent' = <<Sending("disconnect", << >>, << >>)>>
    /\ Fresh
    /\ UNCHANGED <<store_vars, intake, pc, clock, start_time>>

\* lines 125-126: the command ask_for_state_update sends
AllStatesSending ==
    Sending("noparam_ack", get_command_tuple("common", "Common", "AllStates"), << >>)

\* Bebop.ask_for_state_update: the answer of the connection is returned
ask_for_state_update ==
    /\ pc = "idle"
    /\ \E accepted \in BOOLEAN :
          call' = Called("ask_for_state_update", 0, << >>, << >>,
                         PyBool(accepted), PyBool(accepted), "")
    /\ sent' = <<AllStatesSending>>
    /\ Fresh
    /\ UNCHANGED <<store_vars, intake, pc, clock, start_time>>

\* Bebop.takeoff, called by the user
takeoff ==
    /\ pc = "idle"
    /\ \E accepted \in BOOLEAN :
          call' = Called("takeoff", 0, << >>, << >>, PyBool(accepted), TakeoffResult(accepted), "")
    /\ sent' = <<TakeoffSending>>
    /\ Fresh
    /\ UNCHANGED <<store_vars, intake, pc, clock, start_time>>

\* Bebop.land, called by the user
land ==
    /\ pc = "idle"
    /\ \E accepted \in BOOLEAN :
          call' = Called("land", 0, << >>, << >>, PyBool(accepted), LandResult(accepted), "")
    /\ sent' = <<LandSending>>
    /\ Fresh
    /\ UNCHANGED <<store_vars, intake, pc, clock, start_time>>

\* the directions the model calls flip with
Directions == {<<"U", "P">>, <<"L", "e", "f", "t">>, <<"F", "R", "O", "N", "T">>,
               <<"b", "a", "C", "k">>, right}

\* line 248: the test that rejects the direction
IsValidDirection(fixed_direction) == fixed_direction \in {front, back, right, left}

\* line 249: the print of the error; its format has two conversions and is
\* applied to direction alone
InvalidDirectionRaises == PercentFormatRaises(2, 1)

\* lines 247-258: the outcome of flip
FlipOutcome(direction, accepted) ==
    LET fixed_direction == lower(direction)
    IN  IF ~IsValidDirection(fixed_direction)
        THEN IF InvalidDirectionRaises
             THEN [sent |-> << >>, answer |-> None, ret |-> None, exc |-> "TypeError"]
             ELSE [sent |-> << >>, answer |-> None, ret |-> None, exc |-> ""]
        ELSE LET t == get_command_tuple_with_enum("ardrone3", "Animations", "Flip",
                                                  fixed_direction)
             IN  [sent |-> <<Sending("enum_ack", t.command_tuple, t.enum_tuple)>>,
                  answer |-> PyBool(accepted), ret |-> PyBool(accepted), exc |-> ""]

\* Bebop.flip, called by the user
flip ==
    /\ pc = "idle"
    /\ \E direction \in Directions, accepted \in BOOLEAN :
          LET r == FlipOutcome(direction, accepted)
          IN  /\ call' = Called("flip", 0, direction, << >>, r.answer, r.ret, r.exc)
              /\ sent' = r.sent
    /\ Fresh
    /\ UNCHANGED <<store_vars, intake, pc, clock, start_time>>

\* the values fly_direct is called with on each axis, and its durations
FlyValues == {-101, -100, 0, 100, 101}
Durations == {1}

\* the (roll, pitch, yaw, vertical_movement) of the calls: each axis takes
\* every value while the three others are out of range, below and above
FlyOthers == {<<-101, 101, -101, 101>>, <<101, -101, 101, -101>>}
FlyArguments ==
    {[i \in 1 .. 4 |-> IF i = k THEN v ELSE others[i]] :
        k \in 1 .. 4, v \in FlyValues, others \in FlyOthers}

\* the range without its lower end
ensure_fly_command_below(value) ==
    IF value > 100 THEN 100 ELSE value

\* Bebop._ensure_fly_command_in_range, lines 206-211
ensure_fly_command_in_range(value) ==
    IF value < -100 THEN -100
    ELSE IF value > 100 THEN 100
    ELSE value

\* lines 228-236: the outcome of fly_direct; the print of line 233 has four
\* conversions for its four arguments, and nothing is returned
FlyOutcome(roll, pitch, yaw, vertical_movement, duration) ==
    LET my_roll == ensure_fly_command_in_range(roll)
        my_pitch == ensure_fly_command_in_range(pitch)
        my_yaw == ensure_fly_command_in_range(yaw)
        my_vertical == ensure_fly_command_in_range(vertical_movement)
    IN  IF PercentFormatRaises(4, 4)
        THEN [sent |-> << >>, ret |-> None, exc |-> "TypeError"]
        ELSE [sent |-> <<Sending("pcmd",
                                 get_command_tuple("ardrone3", "Piloting", "PCMD"),
                                 <<my_roll, my_pitch, my_yaw, my_vertical, duration>>)>>,
              ret |-> None, exc |-> ""]

\* Bebop.fly_direct, called by the user
fly_direct ==
    /\ pc = "idle"
    /\ \E arguments \in FlyArguments, duration \in Durations :
          LET roll == arguments[1]
              pitch == arguments[2]
              yaw == arguments[3]
              vertical_movement == arguments[4]
              r == FlyOutcome(roll, pitch, yaw, vertical_movement, duration)
          IN  /\ call' = Called("fly_direct", 0, << >>,
                                <<roll, pitch, yaw, vertical_movement, duration>>,
                                None, r.ret, r.exc)
              /\ sent' = r.sent
    /\ Fresh
    /\ UNCHANGED <<store_vars, intake, pc, clock, start_time>>

-----------------------------------------------------------------------------
(* Bebop: the safe actions                                                    *)

\* the seconds of every smart_sleep call of the loops (lines 152, 159, 183, 188)
PollInterval == 1

\* a wait by time.sleep, during which no buffer is handled
time_sleep(timeout) == [pumps |-> FALSE, seconds |-> timeout]

\* Bebop.smart_sleep hands the wait to the connection
smart_sleep(timeout) == connection_smart_sleep(timeout)

Timeouts == -1 .. MaxTimeout

\* the timeouts the user calls smart_sleep with
SleepTimeouts == {1}

\* the places of the caller inside smart_sleep: the waits of the loops and
\* line 197 for a call by the user
Sleeping == {"safe_takeoff:152", "safe_takeoff:159", "safe_land:183", "safe_land:188",
             "smart_sleep:197"}

\* one reading of flying_state and of the clock by a loop test, with the
\* sends and the waits of the call so far
Observation(line) ==
    [line |-> line, state |-> flying_state, elapsed |-> clock - start_time,
     fed |-> fed, sent |-> Len(sent), idles |-> idles]

\* the loops without their emergency test
IsEmergencyNever(state) == FALSE

\* lines 149, 157, 179, 186
IsEmergency(state) == state = PyStr("emergency")

\* the first loop of safe_takeoff sending until the drone is airborne
TakeoffCommandingUntilAirborne(state, elapsed, timeout) ==
    state \notin {PyStr("flying"), PyStr("hovering")} /\ elapsed < timeout

\* line 148
TakeoffCommanding(state, elapsed, timeout) ==
    state # PyStr("takingoff") /\ elapsed < timeout

\* the second loop of safe_takeoff with a timeout of its own, counted from
\* the latest end of the first loop
TakeoffConfirmingOwnBudget(state, elapsed, timeout) ==
    state \notin {PyStr("flying"), PyStr("hovering")} /\ elapsed < timeout + timeout

\* lines 155-156
TakeoffConfirming(state, elapsed, timeout) ==
    state \notin {PyStr("flying"), PyStr("hovering")} /\ elapsed < timeout

\* the first loop of safe_land sending until the drone has landed
LandCommandingUntilLanded(state, elapsed, timeout) ==
    state # PyStr("landed") /\ elapsed < timeout

\* the first loop of safe_land without its timeout
LandCommandingNoTimeout(state, elapsed, timeout) ==
    state \notin {PyStr("landing"), PyStr("landed")}

\* line 178
LandCommanding(state, elapsed, timeout) ==
    state \notin {PyStr("landing"), PyStr("landed")} /\ elapsed < timeout

\* line 185
LandConfirming(state, elapsed, timeout) ==
    state # PyStr("landed") /\ elapsed < timeout

\* lines 146 and 176: the call starts the clock of the action
Enter(op, first) ==
    /\ pc = "idle"
    /\ clock <= MaxStart
    /\ \E timeout \in Timeouts : call' = Called(op, timeout, << >>, << >>, None, None, "")
    /\ start_time' = clock
    /\ pc' = first
    /\ sent' = << >>
    /\ Fresh
    /\ UNCHANGED <<store_vars, intake, clock>>

\* one pass of a loop: the test, the emergency return, the command of the
\* first loop (sending, a sequence of at most one command) and the entry of
\* smart_sleep; a test that fails goes on to after, "idle" being the return
Pass(here, continues, sending, sleeping, after) ==
    /\ pc = here
    /\ obs' = Append(obs, Observation(here))
    /\ IF continues
       THEN IF IsEmergency(flying_state)
            THEN /\ pc' = "idle"
                 /\ UNCHANGED <<sent, idles, fed>>
            ELSE /\ sent' = sent \o sending
                 /\ idles' = idles + 1
                 /\ fed' = flying_state
                 /\ pc' = sleeping
       ELSE /\ pc' = after
            /\ UNCHANGED <<sent, idles, fed>>
    /\ UNCHANGED <<store_vars, intake, call, clock, start_time>>

\* Bebop.safe_takeoff, line 146
safe_takeoff == Enter("safe_takeoff", "safe_takeoff:148")

\* lines 148-152
safe_takeoff_commanding ==
    Pass("safe_takeoff:148",
         TakeoffCommanding(flying_state, clock - start_time, call.timeout),
         <<TakeoffSending>>, "safe_takeoff:152", "safe_takeoff:155")

\* lines 155-159
safe_takeoff_confirming ==
    Pass("safe_takeoff:155",
         TakeoffConfirming(flying_state, clock - start_time, call.timeout),
         << >>, "safe_takeoff:159", "idle")

\* Bebop.safe_land, line 176
safe_land == Enter("safe_land", "safe_land:178")

\* lines 178-183
safe_land_commanding ==
    Pass("safe_land:178",
         LandCommanding(flying_state, clock - start_time, call.timeout),
         <<LandSending>>, "safe_land:183", "safe_land:185")

\* lines 185-188
safe_land_confirming ==
    Pass("safe_land:185",
         LandConfirming(flying_state, clock - start_time, call.timeout),
         << >>, "safe_land:188", "idle")

\* Bebop.smart_sleep, called by the user: the call enters the wait
smart_sleep_called ==
    /\ pc = "idle"
    /\ \E timeout \in SleepTimeouts :
          /\ clock + timeout <= MaxWake
          /\ call' = Called("smart_sleep", timeout, << >>, << >>, None, None, "")
    /\ pc' = "smart_sleep:197"
    /\ sent' = << >>
    /\ obs' = << >>
    /\ idles' = 1
    /\ fed' = flying_state
    /\ UNCHANGED <<store_vars, intake, clock, start_time>>

\* every wait returning to the first loop of its action
LoopOfCommanding(sleeping) ==
    CASE sleeping \in {"safe_takeoff:152", "safe_takeoff:159"} -> "safe_takeoff:148"
      [] sleeping \in {"safe_land:183", "safe_land:188"} -> "safe_land:178"
      [] sleeping = "smart_sleep:197" -> "idle"

\* the loop a smart_sleep call returns to
LoopOf(sleeping) ==
    CASE sleeping = "safe_takeoff:152" -> "safe_takeoff:148"
      [] sleeping = "safe_takeoff:159" -> "safe_takeoff:155"
      [] sleeping = "safe_land:183" -> "safe_land:178"
      [] sleeping = "safe_land:188" -> "safe_land:185"
      [] sleeping = "smart_sleep:197" -> "idle"

\* smart_sleep returns after its seconds: the poll interval in the loops, the
\* timeout of the call for the user
smart_sleep_returns ==
    /\ pc \in Sleeping
    /\ clock' = clock + smart_sleep(IF pc = "smart_sleep:197"
                                    THEN call.timeout ELSE PollInterval).seconds
    /\ pc' = LoopOf(pc)
    /\ UNCHANGED <<store_vars, intake, call, start_time, sent, idles, obs, fed>>

-----------------------------------------------------------------------------
(* The telemetry side                                                         *)

\* the buffers the drone sends while an action runs: one flying state each
DroneSensors ==
    {Sensor(PyStr(FlyingName), PyStr(FlyingStateEnum[i]), NoEnum) :
        i \in 1 .. Len(FlyingStateEnum)}
    \cup {Sensor(PyStr(FlyingName), PyInt(i), EnumTable) : i \in {1, Len(FlyingStateEnum)}}

DronePackets ==
    {Packet(4, 127, 1, [parsed |-> TRUE, sensors |-> <<s>>], TRUE) : s \in DroneSensors}

\* the buffers of a drone that reports the end of its moves as well
EventSensors ==
    {Sensor(PyStr(MoveName), PyInt(0), EnumTable),
     Sensor(PyStr(CameraName), PyInt(0), EnumTable),
     Sensor(PyStr(FlyingName), PyStr("hovering"), NoEnum),
     Sensor(PyStr(FlyingName), PyInt(Len(FlyingStateEnum)), EnumTable)}

EventPackets ==
    {Packet(4, 127, 1, [parsed |-> TRUE, sensors |-> <<s>>], TRUE) : s \in EventSensors}

\* a buffer reaches the connection while the caller is outside every call or
\* inside smart_sleep; the connection hands it to update_sensors unless the
\* caller is in a wait that does not pump. The record of a call that has
\* returned is kept until the next buffer arrives.
Deliver(packets) ==
    /\ pc \in {"idle"} \cup Sleeping
    /\ \E p \in packets :
          /\ IF pc = "idle" \/ smart_sleep(PollInterval).pumps
             THEN update_sensors(p)
             ELSE UNCHANGED <<store_vars, intake>>
          /\ fed' = IF pc \in Sleeping
                    THEN Dispatch([Store EXCEPT !.flying_state = fed], p).st.flying_state
                    ELSE flying_state'
    /\ IF pc = "idle"
       THEN call' = NoCall /\ sent' = << >> /\ idles' = 0 /\ obs' = << >>
       ELSE UNCHANGED <<call, sent, idles, obs>>
    /\ UNCHANGED <<pc, clock, start_time>>

\* the drone reports its flying state
telemetry == Deliver(DronePackets)

\* the drone reports the end of a move, of a camera move, or a flying state
events == Deliver(EventPackets)

\* the sensors of the buffers the store is exercised with
PacketSensors ==
    {MissingSensor,
     Sensor(PyStr(FlyingName), PyInt(1), EnumTable),
     Sensor(PyStr(FlyingName), PyInt(Len(FlyingStateEnum)), EnumTable),
     Sensor(PyStr(BatteryName), PyInt(50), NoEnum),
     Sensor(PyStr(BatteryName), PyInt(100), NoEnum)}

\* any buffer handed to update_sensors
dispatch ==
    /\ \E p \in Packets(PacketSensors) : update_sensors(p)
    /\ UNCHANGED ctl_vars

\* any call of BebopSensors.update
store_update ==
    /\ \E sensor \in Sensors : UpdateCall(sensor)
    /\ UNCHANGED ctl_vars

-----------------------------------------------------------------------------
(* Specifications                                                             *)

\* Bebop.__init__ and BebopSensors.__init__
Init ==
    /\ sensors_dict = NewStore.sensors_dict
    /\ RelativeMoveEnded = NewStore.RelativeMoveEnded
    /\ CameraMoveEnded = NewStore.CameraMoveEnded
    /\ flying_state = NewStore.flying_state
    /\ intake = [op |-> "none", sensor |-> MissingSensor, packet |-> NoPacket,
                 exc |-> "", applied |-> 0, acks |-> << >>, line |-> "return"]
    /\ pc = "idle"
    /\ call = NoCall
    /\ clock = 0
    /\ start_time = 0
    /\ sent = << >>
    /\ idles = 0
    /\ obs = << >>
    /\ fed = NewStore.flying_state

\* the calls of the user
Calls ==
    \/ connect
    \/ disconnect
    \/ ask_for_state_update
    \/ takeoff
    \/ land
    \/ fly_direct
    \/ flip
    \/ smart_sleep_called
    \/ safe_takeoff
    \/ safe_land

\* the steps of the caller's thread inside a safe action or a smart_sleep
Running ==
    \/ safe_takeoff_commanding
    \/ safe_takeoff_confirming
    \/ safe_land_commanding
    \/ safe_land_confirming
    \/ smart_sleep_returns

\* the actions of Bebop against a drone that reports its flying state
Next == Calls \/ Running \/ telemetry

Spec == Init /\ [][Next]_vars

\* the same with the caller's thread never stopped inside a call
SpecLive == Spec /\ WF_vars(Running)

\* the sensor store and the dispatcher against every kind of sensor
NextStore == store_update \/ dispatch

SpecStore == Init /\ [][NextStore]_vars

\* the actions of Bebop against a drone that reports the end of its moves
NextPilot == Calls \/ Running \/ events

SpecPilot == Init /\ [][NextPilot]_vars

\* BebopSensors.update running in steps, read at every step
NextSteps == update_enters \/ update_steps

SpecSteps == Init /\ [][NextSteps]_vars

-----------------------------------------------------------------------------
(* Claims                                                                     *)

\* C1: when BebopSensors.update is called for a sensor the enum table
\* declares, with a raw value that is None or an index >= the length of the
\* sensor's enum list (== length included), the call raises nothing and
\* sensors_dict holds UNKNOWN_ENUM_VALUE under the sensor's name.
C1_UnknownEnumStored ==
    LET sensor == intake.sensor
        name == sensor.sensor_name
        raw == sensor.sensor_value
    IN  ( /\ intake.op = "update"
          /\ name # None
          /\ IsEnumerated(name, sensor.sensor_enum)
          /\ (raw = None \/ raw.n >= Len(sensor.sensor_enum[name.s])) )
        => /\ intake.exc = ""
           /\ name.s \in DOMAIN sensors_dict
           /\ sensors_dict[name.s] = UNKNOWN_ENUM_VALUE

\* C2: in every state flying_state is in sync with the mapping: "unknown"
\* while sensors_dict has no FlyingStateChanged_state, and afterwards the
\* value sensors_dict holds under FlyingStateChanged_state (the label of an
\* enumerated sensor, not its raw index).
C2_FlyingStateInSync ==
    flying_state = IF FlyingName \in DOMAIN sensors_dict
                   THEN sensors_dict[FlyingName]
                   ELSE PyStr("unknown")

\* C3: after update_sensors has handled a buffer with ack = True, ack_packet
\* has been called exactly once, with the buffer's (buffer_id,
\* sequence_number), and every sensor of the buffer has gone through the loop
\* before; for a buffer with ack = False it has not been called.
C3_AckedOnceAfterAll ==
    intake.op = "update_sensors" =>
        IF intake.packet.ack
        THEN /\ intake.acks = << <<intake.packet.buffer_id, intake.packet.sequence_number>> >>
             /\ intake.applied = Len(intake.packet.raw_data.sensors)
        ELSE intake.acks = << >>

\* C4: a flip whose direction, lower-cased, is none of front, back, right and
\* left hands no command to the connection and returns normally (it raises
\* nothing).
C4_InvalidFlipReturns ==
    (call.op = "flip" /\ ~IsValidDirection(lower(call.direction)))
        => sent = << >> /\ call.exc = ""

\* C5: takeoff and land each hand exactly one command to the connection and
\* return what the connection answered: True when it accepted the command,
\* False when it did not.
C5_DirectActionsReturnAnswer ==
    /\ call.op = "takeoff" =>
          sent = <<TakeoffSending>> /\ idles = 0 /\ obs = << >> /\ call.ret = call.answer
    /\ call.op = "land" =>
          sent = <<LandSending>> /\ idles = 0 /\ obs = << >> /\ call.ret = call.answer

Unknown == PyStr("unknown")
TakingOff == PyStr("takingoff")
Airborne == {PyStr("flying"), PyStr("hovering")}
Emergency == PyStr("emergency")

\* C6: in a safe_takeoff whose first k loop tests read "unknown" and whose
\* next one reads "takingoff", the takeoff command has been sent exactly k
\* times, and a test that reads "hovering" or "flying" is the last one: the
\* call has returned at it.
C6_SendsOncePerUnknown ==
    call.op = "safe_takeoff" =>
        \A k \in 0 .. Len(obs) - 1 :
            ( /\ \A i \in 1 .. k : obs[i].state = Unknown
              /\ obs[k + 1].state = TakingOff )
            => /\ sent = [i \in 1 .. k |-> TakeoffSending]
               /\ \A j \in 1 .. Len(obs) :
                     obs[j].state \in Airborne => j = Len(obs) /\ pc = "idle"

\* a safe_takeoff that read "unknown" twice, then "takingoff", has returned on
\* reading "hovering" after two sends, within its timeout
C6_Witness ==
    /\ call.op = "safe_takeoff" /\ pc = "idle"
    /\ Len(obs) >= 4
    /\ obs[1].state = Unknown /\ obs[2].state = Unknown /\ obs[3].state = TakingOff
    /\ obs[Len(obs)].state = PyStr("hovering")
    /\ obs[Len(obs)].elapsed <= call.timeout
    /\ Len(sent) = 2

\* C7: once a loop test of safe_takeoff or safe_land has read "emergency", in
\* either loop, the call sends no further command and enters no further
\* smart_sleep, and it returns: it has returned, or the test found the timeout
\* used up and the next test returns.
C7_EmergencyAborts ==
    \A i \in 1 .. Len(obs) :
        obs[i].state = Emergency =>
            /\ Len(sent) = obs[i].sent
            /\ idles = obs[i].idles
            /\ \/ pc = "idle"
               \/ /\ i = Len(obs)
                  /\ obs[i].elapsed >= call.timeout
                  /\ pc \in {"safe_takeoff:155", "safe_land:185"}

\* a call has returned on reading "emergency" after it had sent a command and
\* waited, with timeout left
C7_Witness ==
    /\ pc = "idle" /\ call.op \in {"safe_takeoff", "safe_land"}
    /\ Len(obs) >= 2
    /\ obs[Len(obs)].state = Emergency
    /\ obs[Len(obs)].elapsed + 1 < call.timeout
    /\ Len(sent) >= 1


SafeActions == {"safe_takeoff", "safe_land"}

\* C8: safe_takeoff and safe_land always return, whatever the timeout and
\* whatever the drone reports: a call that is running eventually has
\* returned; every smart_sleep advancing the clock by the poll interval, the
\* call waits at most timeout times; it raises nothing; and no step of the
\* call writes the store, so that the flying state it leaves is the one
\* telemetry last set.
C8_SafeActionsReturn ==
    /\ (pc # "idle") ~> (pc = "idle")
    /\ [][ /\ pc' # pc => UNCHANGED store_vars
           /\ call'.op \in SafeActions =>
                 /\ call'.exc = ""
                 /\ idles' <= (IF call'.timeout > 0 THEN call'.timeout ELSE 0)
           /\ (pc # "idle" /\ pc' = "idle") => flying_state' = fed ]_vars

\* a safe_takeoff has returned on its timeout: the drone reported nothing, so
\* every test read "unknown" and every pass sent the command again
C8_Witness ==
    /\ pc = "idle" /\ call.op = "safe_takeoff"
    /\ call.timeout >= 2
    /\ \A i \in 1 .. Len(obs) : obs[i].state = Unknown
    /\ obs[Len(obs)].elapsed >= call.timeout
    /\ Len(sent) = call.timeout
    /\ flying_state = Unknown

\* C9: a call of update with the sensor name None changes nothing in the
\* store and raises nothing; and update_sensors leaves the store (and raises)
\* as it does for the same buffer without its sensors of name None: such a
\* sensor does not keep the sensors after it from being applied.
C9_MissingSensorSkipped ==
    [][ /\ (intake'.op = "update" /\ intake'.sensor.sensor_name = None)
              => UNCHANGED store_vars /\ intake'.exc = ""
        /\ (intake'.op = "update_sensors" /\ intake'.packet.raw_data.parsed)
              => LET named == SelectSeq(intake'.packet.raw_data.sensors, IsNamed)
                     r == ApplySensors(Store, named, 1)
                 IN  Store' = r.st /\ intake'.exc = r.exc ]_vars

\* update_sensors has handled a buffer whose first sensor has no name and has
\* stored the second one
C9_Witness ==
    LET sensors == intake.packet.raw_data.sensors
    IN  /\ intake.op = "update_sensors"
        /\ Len(sensors) = 2
        /\ sensors[1].sensor_name = None
        /\ sensors[2].sensor_name = PyStr(BatteryName)
        /\ intake.applied = 2
        /\ BatteryName \in DOMAIN sensors_dict
        /\ sensors_dict[BatteryName] = sensors[2].sensor_value

\* C10: every loop test of a safe action reads the flying state that the
\* buffers which reached the connection during the wait before it leave once
\* update_sensors has handled each of them, and during the wait the store
\* holds that state: no buffer waits for the loop to finish.
C10_WaitsPumpTelemetry ==
    /\ \A i \in 1 .. Len(obs) : obs[i].state = obs[i].fed
    /\ pc \in Sleeping => flying_state = fed

\* the second test of a safe_takeoff has read "takingoff", reported by the
\* drone during the wait after the first test, which had read "unknown"
C10_Witness ==
    /\ call.op = "safe_takeoff"
    /\ Len(obs) >= 2
    /\ obs[1].state = Unknown
    /\ obs[2].state = TakingOff
    /\ obs[2].idles = 1
    /\ intake.op = "update_sensors"

\* C11: the derived fields change only on an exact match of the sensor's
\* name: no step of an update whose name is not exactly
\* FlyingStateChanged_state changes flying_state, none of one whose name is
\* not exactly PilotingEvent_moveByEnd changes RelativeMoveEnded, and none of
\* one whose name is not exactly CameraState_OrientationV2 changes
\* CameraMoveEnded; a name that contains one of them does not count.
C11_ExactNameOnly ==
    [][ LET name == intake'.sensor.sensor_name
        IN  /\ name # PyStr(FlyingName) => flying_state' = flying_state
            /\ name # PyStr(MoveName) => RelativeMoveEnded' = RelativeMoveEnded
            /\ name # PyStr(CameraName) => CameraMoveEnded' = CameraMoveEnded ]_vars

\* updates of the three names that contain a name update tests for have been
\* stored, the last one has returned, and no derived field has changed
C11_Witness ==
    /\ intake.op = "update" /\ intake.line = "return"
    /\ intake.sensor.sensor_name = PyStr(MoveArgName)
    /\ {MoveArgName, CameraArgName, FlyingClassName} \subseteq DOMAIN sensors_dict
    /\ flying_state = Unknown
    /\ ~RelativeMoveEnded /\ ~CameraMoveEnded

\* C12: RelativeMoveEnded and CameraMoveEnded are monotonic: no step, of the
\* telemetry side, of a direct action or of a safe action, takes either flag
\* from true back to false.
C12_FlagsNeverCleared ==
    [][ /\ RelativeMoveEnded => RelativeMoveEnded'
        /\ CameraMoveEnded => CameraMoveEnded' ]_vars

\* both flags are true after a safe_land that found the drone hovering, sent
\* its command, waited twice and has returned, the last buffer handled having
\* raised IndexError in update
C12_Witness ==
    /\ RelativeMoveEnded /\ CameraMoveEnded
    /\ pc = "idle" /\ call.op = "safe_land"
    /\ Len(sent) >= 2 /\ idles >= 2
    /\ obs[1].state = PyStr("hovering")
    /\ intake.exc = "IndexError"

\* C13: fly_direct hands exactly one PCMD command to the connection, raises
\* nothing, and the command carries each of roll, pitch, yaw and vertical
\* clamped to [-100, 100]: -100 for an input below -100, 100 for one above
\* 100, the input itself otherwise; the value of an axis depends on the input
\* of that axis alone, and the duration is passed as given.
C13_AxesClamped ==
    call.op = "fly_direct" =>
        /\ call.exc = ""
        /\ Len(sent) = 1
        /\ sent[1].how = "pcmd"
        /\ sent[1].command_tuple = <<1, 0, 2>>
        /\ \A i \in 1 .. 4 :
              sent[1].enum_tuple[i] =
                  CASE call.axes[i] < -100 -> -100
                    [] call.axes[i] > 100 -> 100
                    [] OTHER -> call.axes[i]
        /\ sent[1].enum_tuple[5] = call.axes[5]

\* fly_direct(-101, 101, 0, 101, 1) has sent (-100, 100, 0, 100, 1)
C13_Witness ==
    /\ call.op = "fly_direct"
    /\ call.axes = <<-101, 101, 0, 101, 1>>
    /\ Len(sent) = 1
    /\ sent[1].enum_tuple = <<-100, 100, 0, 100, 1>>

\* C14: for a sensor the enum table does not declare, sensors_dict holds v
\* under the name after update(name, v); and the sensors of one buffer are
\* applied in the order of the list, the last write winning: after
\* update_sensors has handled a buffer, sensors_dict holds, under every such
\* name the buffer carries, the value of the last sensor of that name.
C14_LastWriteWins ==
    /\ ( /\ intake.op = "update"
          /\ IsNamed(intake.sensor)
          /\ ~IsEnumerated(intake.sensor.sensor_name, intake.sensor.sensor_enum) )
        => /\ intake.exc = ""
           /\ intake.sensor.sensor_name.s \in DOMAIN sensors_dict
           /\ sensors_dict[intake.sensor.sensor_name.s] = intake.sensor.sensor_value
    /\ intake.op = "update_sensors" =>
          LET sensors == intake.packet.raw_data.sensors
          IN  \A i \in 1 .. Len(sensors) :
                  ( /\ IsNamed(sensors[i])
                    /\ ~IsEnumerated(sensors[i].sensor_name, sensors[i].sensor_enum)
                    /\ \A j \in i + 1 .. Len(sensors) :
                          sensors[j].sensor_name # sensors[i].sensor_name )
                  => /\ sensors[i].sensor_name.s \in DOMAIN sensors_dict
                     /\ sensors_dict[sensors[i].sensor_name.s] = sensors[i].sensor_value

\* direction spells variant, each letter in either case
Spells(direction, variant) ==
    /\ Len(direction) = Len(variant)
    /\ \A i \in 1 .. Len(variant) :
          \E k \in DOMAIN LowerCase :
              LowerCase[k] = variant[i] /\ direction[i] \in {LowerCase[k], UpperCase[k]}

\* C15: a flip whose direction spells front, back, right or left in any
\* letter case raises nothing, hands exactly one acknowledged enum command to
\* the connection, the Flip command with the enum position of the lower-cased
\* variant, and returns what the connection answered.
C15_FlipAnyCase ==
    \A v \in DOMAIN FlipEnum :
        (call.op = "flip" /\ Spells(call.direction, FlipEnum[v]))
        => /\ call.exc = ""
           /\ sent = <<Sending("enum_ack", <<1, 5, 0>>, <<v - 1>>)>>
           /\ call.answer \in {PyBool(TRUE), PyBool(FALSE)}
           /\ call.ret = call.answer

\* flip("Left") has sent the Flip command with the position of left once and
\* has returned the True of the connection
C15_Witness ==
    /\ call.op = "flip"
    /\ call.direction = <<"L", "e", "f", "t">>
    /\ sent = <<Sending("enum_ack", <<1, 5, 0>>, <<3>>)>>
    /\ call.ret = PyBool(TRUE)

\* C16: within one update the resolved value is written to sensors_dict
\* before any derived field is changed: every step of an update that changes
\* flying_state, RelativeMoveEnded or CameraMoveEnded is taken when
\* sensors_dict already holds the resolved value of that update under its
\* name, so that in every state a reader can see, a flag that is set and a
\* flying_state that is no longer the initial one have their sensor in
\* sensors_dict.
C16_MappingWrittenFirst ==
    /\ [](RelativeMoveEnded => MoveName \in DOMAIN sensors_dict)
    /\ [](CameraMoveEnded => CameraName \in DOMAIN sensors_dict)
    /\ [](flying_state # PyStr("unknown") => FlyingName \in DOMAIN sensors_dict)
    /\ [][ ( \/ flying_state' # flying_state
             \/ RelativeMoveEnded' # RelativeMoveEnded
             \/ CameraMoveEnded' # CameraMoveEnded )
           => LET sensor == intake.sensor
                  name == sensor.sensor_name.s
              IN  /\ intake.op = "update" /\ intake.line # "return"
                  /\ name \in DOMAIN sensors_dict
                  /\ sensors_dict[name] =
                        Resolve(sensor.sensor_name, sensor.sensor_value,
                                sensor.sensor_enum).value ]_vars

\* a reader sees an update between its writes: the label of the new flying
\* state is in sensors_dict while flying_state is still the former one
C16_Witness ==
    /\ intake.op = "update" /\ intake.line = "42"
    /\ intake.sensor = Sensor(PyStr(FlyingName), PyInt(1), EnumTable)
    /\ sensors_dict[FlyingName] = TakingOff
    /\ flying_state = PyStr("hovering")
    /\ RelativeMoveEnded

Landing == PyStr("landing")
Landed == PyStr("landed")

\* C17: safe_land has two phases. It has sent the land command once for each
\* test of its first loop that read a flying state other than "landing",
\* "landed" and "emergency" before the deadline, and nothing else; once a
\* test has read "landing" or "landed" it sends nothing more; once a test has
\* read "landed" it enters no further wait and returns; and called while the
\* state is "landed" it returns having sent nothing and waited for nothing.
C17_LandTwoPhases ==
    call.op = "safe_land" =>
        /\ LET commanded == {i \in 1 .. Len(obs) :
                                /\ obs[i].line = "safe_land:178"
                                /\ obs[i].state \notin {Landing, Landed, Emergency}
                                /\ obs[i].elapsed < call.timeout}
           IN  sent = [i \in 1 .. Cardinality(commanded) |-> LandSending]
        /\ \A i \in 1 .. Len(obs) :
              /\ obs[i].state \in {Landing, Landed} => Len(sent) = obs[i].sent
              /\ obs[i].state = Landed =>
                    /\ idles = obs[i].idles
                    /\ \/ pc = "idle"
                       \/ i = Len(obs) /\ pc = "safe_land:185"
        /\ (obs # << >> /\ obs[1].state = Landed) => sent = << >> /\ idles = 0

\* a safe_land has sent its command on reading "hovering", has gone on to
\* wait on reading "landing" and has returned on reading "landed", with
\* timeout left
C17_Witness ==
    /\ pc = "idle" /\ call.op = "safe_land"
    /\ Len(obs) >= 4
    /\ obs[1].state = PyStr("hovering")
    /\ \E i \in 1 .. Len(obs) : obs[i].line = "safe_land:178" /\ obs[i].state = Landing
    /\ obs[Len(obs)].state = Landed
    /\ obs[Len(obs)].elapsed < call.timeout
    /\ Len(sent) = 1 /\ idles = 2

\* C18: the phases of safe_takeoff are one-way and the second never sends:
\* once a loop test has read "takingoff", and once the second loop has been
\* reached, the call sends no takeoff command again, whatever the flying
\* state becomes afterwards; every later test is a test of the second loop,
\* which only waits. The second loop of safe_land is final in the same way.
C18_ConfirmingNeverSends ==
    /\ call.op = "safe_takeoff" =>
          \A i \in 1 .. Len(obs) :
              (obs[i].state = TakingOff \/ obs[i].line = "safe_takeoff:155")
              => /\ Len(sent) = obs[i].sent
                 /\ \A j \in i + 1 .. Len(obs) : obs[j].line = "safe_takeoff:155"
    /\ call.op = "safe_land" =>
          \A i \in 1 .. Len(obs) :
              obs[i].line = "safe_land:185"
              => /\ Len(sent) = obs[i].sent
                 /\ \A j \in i + 1 .. Len(obs) : obs[j].line = "safe_land:185"

\* a safe_takeoff has read "takingoff" after one send, then has read
\* "unknown" or "landed" again in its second loop and has waited once more
\* without sending
C18_Witness ==
    /\ call.op = "safe_takeoff"
    /\ \E i \in 1 .. Len(obs) : \E j \in i + 1 .. Len(obs) :
          /\ obs[i].state = TakingOff /\ obs[i].sent = 1
          /\ obs[j].state \in {Unknown, Landed}
          /\ obs[j].elapsed < call.timeout
          /\ idles > obs[j].idles
    /\ Len(sent) = 1

\* the poll intervals in a timeout, the poll interval being 1
Intervals(timeout) == IF timeout > 0 THEN timeout ELSE 0

\* C19: the deadline of a safe action is one budget counted from the call
\* and shared by both loops: once a loop test has found elapsed >= timeout,
\* the call sends nothing more and enters no further wait; the number of
\* sends plus the number of waits is at most the number of poll intervals in
\* the timeout; and a timeout <= 0 produces no send.
C19_SingleBudget ==
    call.op \in SafeActions =>
        /\ \A i \in 1 .. Len(obs) :
              obs[i].elapsed >= call.timeout
              => Len(sent) = obs[i].sent /\ idles = obs[i].idles
        /\ Len(sent) + idles <= Intervals(call.timeout)
        /\ call.timeout <= 0 => sent = << >>

\* C19 as amended: the same, the bound being on the waits alone: the number
\* of waits (of both loops together) is at most the number of poll intervals
\* in the timeout, and the number of sends is at most the number of waits,
\* every send being followed by a wait.
C19_SingleBudgetOfWaits ==
    call.op \in SafeActions =>
        /\ \A i \in 1 .. Len(obs) :
              obs[i].elapsed >= call.timeout
              => Len(sent) = obs[i].sent /\ idles = obs[i].idles
        /\ idles <= Intervals(call.timeout)
        /\ Len(sent) <= idles
        /\ call.timeout <= 0 => sent = << >>

\* a safe_takeoff with timeout 3 has used two intervals in its first loop and
\* the last one in its second, and has returned at the deadline with the
\* drone still taking off
C19_Witness ==
    /\ pc = "idle" /\ call.op = "safe_takeoff"
    /\ call.timeout = 3
    /\ Len(sent) = 2 /\ idles = 3
    /\ obs[Len(obs)].line = "safe_takeoff:155"
    /\ obs[Len(obs)].state = TakingOff
    /\ obs[Len(obs)].elapsed = call.timeout

\* C20: safe_takeoff never sends the takeoff command at a loop test that
\* reads "flying" or "hovering": such a test, the first one of a call made
\* while the drone is airborne included, is followed by no send and no wait,
\* and the call returns at it (from the first loop, through the test of the
\* second loop that follows at once).
C20_NoSendWhenAirborne ==
    call.op = "safe_takeoff" =>
        \A i \in 1 .. Len(obs) :
            obs[i].state \in Airborne
            => /\ Len(sent) = obs[i].sent
               /\ idles = obs[i].idles
               /\ \/ pc = "idle"
                  \/ i = Len(obs) /\ pc = "safe_takeoff:155"


=============================================================================
